---- MODULE Spec2Model ----
(***************************************************************************)
(* Model of src/src/lib.rs: a Cloudflare Worker that discovers the links   *)
(* of a page (fetch_links), renders each link as Markdown (fetch_markdown, *)
(* both through retry_request) and stores each rendition in an R2 bucket   *)
(* (scrape_and_store), answering with a ScrapeResponse (main).             *)
(*                                                                         *)
(* Strings whose characters matter (URLs, file names, storage keys) are    *)
(* sequences of one-character strings; opaque texts (document bodies,      *)
(* error texts of the libraries) are TLA+ strings.  A formatted message    *)
(* (format!) is the sequence of its literal and interpolated parts.        *)
(***************************************************************************)
EXTENDS Integers, Sequences, FiniteSets, TLC

(* ------------------------------ bounds -------------------------------- *)

\* longest link list the discovery call returns
MaxLinks == 2
\* the clock runs over 0..MaxTime milliseconds
MaxTime == 1
\* url_to_filename on its own: longest URL drawn, and largest timestamp
MaxUrlLen == 4
MaxStamp == 12

(* ------------------------- program constants -------------------------- *)

\* lib.rs:203  let max_retries = 3;
max_retries == 3
\* lib.rs:205-228  attempt runs over 0..max_retries: the attempts of one call
MaxAttempts == max_retries + 1
\* the attempts an invocation can send: one call for the links, one per link
MaxSent == MaxAttempts * (MaxLinks + 1)
\* lib.rs:204  let retry_delay = Duration::from_secs(2);
retry_delay == 2

(* ------------------------------ strings ------------------------------- *)

Range(s) == {s[k] : k \in DOMAIN s}

\* s starts with the pattern p
StartsWith(s, p) ==
    /\ Len(p) <= Len(s)
    /\ SubSeq(s, 1, Len(p)) = p

\* str::replace(pat, to): every non-overlapping match of pat, found left to
\* right, is replaced by to (pat is never empty here)
RECURSIVE replace(_, _, _)
replace(s, pat, to) ==
    IF s = <<>> THEN <<>>
    ELSE IF StartsWith(s, pat)
         THEN to \o replace(SubSeq(s, Len(pat) + 1, Len(s)), pat, to)
         ELSE <<Head(s)>> \o replace(Tail(s), pat, to)

Digit(d) == <<"0", "1", "2", "3", "4", "5", "6", "7", "8", "9">>[d + 1]

\* Display of a non-negative i64: its decimal digits, no padding
RECURSIVE to_string(_)
to_string(n) ==
    IF n < 10 THEN <<Digit(n)>>
    ELSE to_string(n \div 10) \o <<Digit(n % 10)>>

\* the three replacements with "/" first
safe_url_slash_first(url) ==
    replace(replace(replace(url, <<"/">>, <<"_">>),
                    <<":", "/", "/">>, <<"_">>),
            <<".">>, <<"_">>)

\* lib.rs:236  url.replace("://", "_").replace("/", "_").replace(".", "_")
safe_url(url) ==
    replace(replace(replace(url, <<":", "/", "/">>, <<"_">>),
                    <<"/">>, <<"_">>),
            <<".">>, <<"_">>)

\* lib.rs:235-238; millis is what chrono::Utc::now().timestamp_millis() reads
url_to_filename(url, millis) ==
    safe_url(url) \o <<"_">> \o to_string(millis)

KeyPrefix == <<"m", "a", "r", "k", "d", "o", "w", "n", "/">>
KeySuffix == <<".", "m", "d">>

\* lib.rs:110-113  format!("markdown/{}.md", url_to_filename(&link))
file_name_of(link, millis) ==
    KeyPrefix \o url_to_filename(link, millis) \o KeySuffix

PublicPrefix ==
    <<"h", "t", "t", "p", "s", ":", "/", "/", "<", "y", "o", "u", "r", "-",
      "r", "2", "-", "b", "u", "c", "k", "e", "t", "-", "p", "u", "b", "l",
      "i", "c", "-", "d", "o", "m", "a", "i", "n", ">", "/">>

\* the location of the bucket's "markdown/" folder, whatever the key
public_url_of_folder(file_name) == PublicPrefix \o KeyPrefix

\* lib.rs:124  format!("https://<your-r2-bucket-public-domain>/{file_name}")
public_url_of(file_name) == PublicPrefix \o file_name

(* ------------------------- inputs of the model ------------------------ *)

\* the invocations (one inbound request each)
Invs == {1, 2}

\* links the rendering backend may report, in any order and with repetitions
LinkUrls == {<<"a", "/", "b">>, <<"a", ".", "c">>}
LinkLists == UNION {[1..n -> LinkUrls] : n \in 0..MaxLinks}
Docs == {"# A", "# B"}

\* the URL of the inbound ScrapeRequest
PageUrl == <<"h", "t", "t", "p", "s", ":", "/", "/", "a", ".", "c", "o", "m">>

Methods == {"POST", "GET"}
FailStatuses == {500}
OkStatuses == {200}
TransportErrors == {"operation timed out"}
StorageErrors == {"R2 put failed"}

\* the decoded body of a 2xx answer: BrowserRenderingResponse<T> (lib.rs:21-25),
\* or no such value when the body does not deserialize
NoBody == [parses |-> FALSE, success |-> FALSE, links |-> <<>>, text |-> ""]
LinksBodies ==
    {NoBody}
    \cup {[parses |-> TRUE, success |-> FALSE, links |-> <<>>, text |-> ""]}
    \cup {[parses |-> TRUE, success |-> TRUE, links |-> l, text |-> ""] :
             l \in LinkLists}
MarkdownBodies ==
    {NoBody}
    \cup {[parses |-> TRUE, success |-> FALSE, links |-> <<>>, text |-> ""]}
    \cup {[parses |-> TRUE, success |-> TRUE, links |-> <<>>, text |-> d] :
             d \in Docs}

\* what one call of the request closure yields (reqwest::Result<Response>):
\* a response with a status, or a transport error
Failures ==
    {[kind |-> "http", status |-> s, text |-> "", body |-> NoBody] :
        s \in FailStatuses}
    \cup {[kind |-> "err", status |-> 0, text |-> e, body |-> NoBody] :
             e \in TransportErrors}
NoAnswer == [kind |-> "none", status |-> 0, text |-> ""]
Answers(a) ==
    Failures
    \cup {[kind |-> "http", status |-> s, text |-> "", body |-> b] :
             s \in OkStatuses,
             b \in IF a = "links" THEN LinksBodies ELSE MarkdownBodies}
\* what bucket.put(..).execute().await yields: the object, or an error
PutOutcomes ==
    {[kind |-> "stored", status |-> 0, text |-> "", body |-> NoBody]}
    \cup {[kind |-> "err", status |-> 0, text |-> e, body |-> NoBody] :
             e \in StorageErrors}

\* StatusCode::is_success: 200..299
is_success(status) == status >= 200 /\ status <= 299

(* ------------------------------- state -------------------------------- *)

VARIABLES
    now,         \* the wall clock, in milliseconds
    bucket,      \* the R2 bucket: key -> stored bytes
    pending,     \* a remote answer given to invocation 1 that invocation 2
                 \* has still to be given (used when two invocations are compared)
    pc,          \* where each invocation stands
    req,         \* the inbound request
    env,         \* which bindings the environment has
    api,         \* the upstream capability being called: "links" / "markdown"
    attempt,     \* retry_request's attempt
    resp,        \* the 2xx response retry_request returned
    links,       \* the discovered links
    idx,         \* position of `for link in links`
    markdown,    \* the text fetch_markdown returned
    file_name,   \* the key being written
    file_urls,   \* the locations collected so far
    response,    \* the Response main returns
    called,      \* the upstream calls made: capability, link position, URL
    console,     \* the console_log! lines since the current upstream call began
    puts,        \* the bucket puts that completed, in order, with their outcome
    tries,       \* the outcome of each attempt of the retry_request call that
                 \* runs, or that returned and whose result is still unread
    last,        \* the latest outcome of request().await in that call
    fetched,     \* positions of the links whose fetch_markdown returned Ok
    discovery,   \* what the links capability answered with a 2xx status:
                 \* "accepted", "rejected" (success: false), "garbled";
                 \* "none" as long as it has not
    sent,        \* how many upstream attempts the invocation has sent, in
                 \* the specification that counts them
    trace,       \* what the retry_request call that runs (or returned, its
                 \* result still unread) has done: attempts, log lines, delays
    name_in,     \* url_to_filename on its own: the URL and the clock reading
    name_out,    \*   the name it returned
    key_out      \*   the storage key made of it

vars == <<now, bucket, pending, pc, req, env, api, attempt, resp, links, idx,
          markdown, file_name, file_urls, response, called, console, puts,
          tries, last, fetched, discovery, sent, trace, name_in, name_out,
          key_out>>

\* the variables of the invocations' own state
local == <<pc, req, env, api, attempt, resp, links, idx, markdown, file_name,
           file_urls, response, called, console, puts, tries, last, fetched,
           discovery, sent, trace>>

\* the variables of url_to_filename on its own
naming == <<name_in, name_out, key_out>>

Requests == [method : Methods, body_ok : BOOLEAN, url : {PageUrl}]
Envs == [token : BOOLEAN, account : BOOLEAN, bucket : BOOLEAN, client : BOOLEAN]

NoResponse ==
    [status |-> 0, json |-> FALSE, text |-> "", success |-> FALSE,
     files |-> <<>>, error |-> <<>>]

\* everything of an invocation but its request and bindings
InitLocal ==
    /\ api = [i \in Invs |-> "none"]
    /\ attempt = [i \in Invs |-> 0]
    /\ resp = [i \in Invs |-> NoBody]
    /\ links = [i \in Invs |-> <<>>]
    /\ idx = [i \in Invs |-> 0]
    /\ markdown = [i \in Invs |-> ""]
    /\ file_name = [i \in Invs |-> <<>>]
    /\ file_urls = [i \in Invs |-> <<>>]
    /\ response = [i \in Invs |-> NoResponse]
    /\ called = [i \in Invs |-> {}]
    /\ console = [i \in Invs |-> <<>>]
    /\ puts = [i \in Invs |-> <<>>]
    /\ tries = [i \in Invs |-> <<>>]
    /\ last = [i \in Invs |-> NoAnswer]
    /\ fetched = [i \in Invs |-> {}]
    /\ discovery = [i \in Invs |-> "none"]
    /\ sent = [i \in Invs |-> 0]
    /\ trace = [i \in Invs |-> <<>>]

\* one inbound request, any method, body, bindings; the second invocation
\* never starts
Init ==
    /\ now = 0
    /\ bucket = <<>>
    /\ pending = <<>>
    /\ pc = [i \in Invs |-> IF i = 1 THEN "main" ELSE "idle"]
    /\ \E r \in Requests, e \in Envs :
          /\ req = [i \in Invs |-> r]
          /\ env = [i \in Invs |-> e]
    /\ InitLocal
    /\ name_in = [url |-> <<>>, millis |-> 0]
    /\ name_out = <<>>
    /\ key_out = <<>>

(* ------------------------------ main ---------------------------------- *)

\* Response::from_json(&ScrapeResponse {..}) with a status (200 when none is set)
json_response(status, success, files, error) ==
    [status |-> status, json |-> TRUE, text |-> "", success |-> success,
     files |-> files, error |-> error]

\* lib.rs:34  Response::error("Method Not Allowed", 405): a plain-text body
method_not_allowed ==
    [status |-> 405, json |-> FALSE, text |-> "Method Not Allowed",
     success |-> FALSE, files |-> <<>>, error |-> <<>>]

\* lib.rs:40-44
invalid_body ==
    json_response(400, FALSE, <<>>,
                  <<<<"Invalid request body: ", "expected a JSON object with url">>>>)

\* lib.rs:50-54, 58-62, 68-72
missing_binding(what) ==
    json_response(500, FALSE, <<>>, <<<<what, "binding not found">>>>)

\* lib.rs:77-81
scrape_ok(files) == json_response(200, TRUE, files, <<>>)

\* the Err arm of main without .with_status(500)
scrape_failed_status_unset(e) ==
    json_response(200, FALSE, <<>>, <<<<"Scraping failed: ">> \o e>>)

\* the Err arm of main with the cause left out of the message
scrape_failed_without_cause(e) ==
    json_response(500, FALSE, <<>>, <<<<"Scraping failed">>>>)

\* lib.rs:82-86
scrape_failed(e) ==
    json_response(500, FALSE, <<>>, <<<<"Scraping failed: ">> \o e>>)

\* lib.rs:99 and 144, 107 and 174, then 203-207: fetch_links or fetch_markdown
\* enters retry_request
EnterRetry(i, a) ==
    /\ api' = [api EXCEPT ![i] = a]
    /\ attempt' = [attempt EXCEPT ![i] = 0]
    /\ tries' = [tries EXCEPT ![i] = <<>>]
    /\ console' = [console EXCEPT ![i] = <<>>]
    /\ trace' = [trace EXCEPT ![i] = <<>>]
    /\ pc' = [pc EXCEPT ![i] = "request"]

\* main returns r
Finish(i, r) ==
    /\ pc' = [pc EXCEPT ![i] = "done"]
    /\ response' = [response EXCEPT ![i] = r]

\* lib.rs:29-76 and 91-101: main up to the first upstream request, that of
\* fetch_links
Main(i) ==
    /\ pc[i] = "main"
    /\ IF req[i].method # "POST" THEN
          /\ Finish(i, method_not_allowed)
          /\ UNCHANGED <<api, attempt, tries, console, trace>>
       ELSE IF ~req[i].body_ok THEN
          /\ Finish(i, invalid_body)
          /\ UNCHANGED <<api, attempt, tries, console, trace>>
       ELSE IF ~env[i].token THEN
          /\ Finish(i, missing_binding("Missing API token: "))
          /\ UNCHANGED <<api, attempt, tries, console, trace>>
       ELSE IF ~env[i].account THEN
          /\ Finish(i, missing_binding("Missing account ID: "))
          /\ UNCHANGED <<api, attempt, tries, console, trace>>
       ELSE IF ~env[i].bucket THEN
          /\ Finish(i, missing_binding("Failed to access R2 bucket: "))
          /\ UNCHANGED <<api, attempt, tries, console, trace>>
       ELSE IF ~env[i].client THEN
          /\ Finish(i, scrape_failed(<<"Failed to create client: ", "builder error">>))
          /\ UNCHANGED <<api, attempt, tries, console, trace>>
       ELSE
          /\ EnterRetry(i, "links")
          /\ UNCHANGED response
    /\ UNCHANGED <<now, bucket, pending, req, env, resp, links, idx, markdown,
                   file_name, file_urls, called, puts, last, fetched,
                   discovery, sent, naming>>

(* --------------------------- retry_request ---------------------------- *)

\* what retry_request does that can be seen from outside it: lib.rs:208 an
\* attempt, lib.rs:229 a console line, lib.rs:230 a delay of so many seconds
AttemptEvent == [ev |-> "attempt", line |-> <<>>, secs |-> 0]
LogEvent(line) == [ev |-> "log", line |-> line, secs |-> 0]
DelayEvent(secs) == [ev |-> "delay", line |-> <<>>, secs |-> secs]

\* lib.rs:212-216 and 221-224: the terminal error of retry_request
retry_error(r) ==
    IF r.kind = "http"
    THEN <<"HTTP error after ">> \o to_string(max_retries)
            \o <<" attempts: ">> \o to_string(r.status)
    ELSE <<"Request failed after ">> \o to_string(max_retries)
            \o <<" attempts: ", r.text>>

\* the loop with `attempt > max_retries` for `attempt >= max_retries`
retry_step_one_more(att, r) ==
    IF r.kind = "http" /\ is_success(r.status) THEN "return_ok"
    ELSE IF att > max_retries THEN "return_err"
    ELSE "retry"

\* the loop without its `attempt >= max_retries` returns
retry_step_unbounded(att, r) ==
    IF r.kind = "http" /\ is_success(r.status) THEN "return_ok" ELSE "retry"

\* a transport error returned at once, a non-2xx status retried
retry_step_transport_fatal(att, r) ==
    IF r.kind = "http" /\ is_success(r.status) THEN "return_ok"
    ELSE IF r.kind = "err" \/ att >= max_retries THEN "return_err"
    ELSE "retry"

\* lib.rs:208-227: what the loop does with the outcome r of request().await
\* when `attempt` is att
retry_step(att, r) ==
    IF r.kind = "http" /\ is_success(r.status) THEN "return_ok"
    ELSE IF att >= max_retries THEN "return_err"
    ELSE "retry"

\* the line written before `attempt` is incremented
retry_line_before_increment(att) ==
    <<"Retry attempt ">> \o to_string(att - 1) \o <<" for request">>

\* lib.rs:229
retry_line(att) ==
    <<"Retry attempt ">> \o to_string(att) \o <<" for request">>

\* lib.rs:128
skip_line(link, e) ==
    <<"Failed to fetch Markdown for ">> \o link \o <<": ">> \o e

\* every error of a fetch propagated with `?`, also that of fetch_markdown
FetchFailedAborts(i, e) ==
    /\ Finish(i, scrape_failed(<<"Failed to fetch: ">> \o e))
    /\ UNCHANGED <<console, idx>>

\* a fetch that failed sends its request again
FetchFailedRetries(i, e) ==
    /\ pc' = [pc EXCEPT ![i] = "request"]
    /\ UNCHANGED <<console, idx, response>>

\* the error of fetch_links / fetch_markdown, as its caller in
\* scrape_and_store handles it: lib.rs:101 (map_err and ?, main answers) and
\* lib.rs:127-130 (log, continue)
FetchFailed(i, e) ==
    IF api[i] = "links"
    THEN /\ Finish(i, scrape_failed(<<"Failed to fetch links: ">> \o e))
         /\ UNCHANGED <<console, idx>>
    ELSE /\ console' = [console EXCEPT
                           ![i] = Append(@, skip_line(links[i][idx[i]], e))]
         /\ idx' = [idx EXCEPT ![i] = @ + 1]
         /\ pc' = [pc EXCEPT ![i] = "loop"]
         /\ UNCHANGED response

\* the remote answers: invocation 2, when it runs, is given what invocation 1
\* was given for the same call (x is the answer, what its kind)
Given(i, what, x) ==
    IF i = 1
    THEN /\ pending = <<>> \/ pc[2] \in {"idle", "done"}
         /\ pending' = IF pc[2] \in {"idle", "done"} THEN <<>>
                       ELSE <<[what |-> what, x |-> x]>>
    ELSE /\ pending = <<[what |-> what, x |-> x]>>
         /\ pending' = <<>>

\* how an attempt ended: a 2xx response, another response, a transport error
Outcome(r) ==
    IF r.kind = "err" THEN "error"
    ELSE IF is_success(r.status) THEN "success"
    ELSE "status"

\* what the links capability has answered once r has arrived
Heard(i, r) ==
    IF api[i] # "links" \/ Outcome(r) # "success" THEN discovery[i]
    ELSE IF ~r.body.parses THEN "garbled"
    ELSE IF ~r.body.success THEN "rejected"
    ELSE "accepted"

\* lib.rs:208  request(): the closure of lib.rs:144-151 / 174-181 sends the POST
Send(i) ==
    /\ pc[i] = "request"
    /\ called' = [called EXCEPT ![i] = @ \cup
                    {[api |-> api[i], at |-> idx[i],
                      url |-> IF api[i] = "links" THEN req[i].url
                              ELSE links[i][idx[i]]]}]
    /\ trace' = [trace EXCEPT ![i] = Append(@, AttemptEvent)]
    /\ pc' = [pc EXCEPT ![i] = "await"]
    /\ UNCHANGED <<now, bucket, pending, req, env, api, attempt, resp, links,
                   idx, markdown, file_name, file_urls, response, console,
                   puts, tries, last, fetched,
                   discovery, naming>>

\* the attempt sent, not counted
Request(i) == Send(i) /\ UNCHANGED sent

\* the attempt sent and counted; the count stops one past MaxSent
CountedRequest(i) ==
    /\ sent[i] <= MaxSent
    /\ Send(i)
    /\ sent' = [sent EXCEPT ![i] = @ + 1]

\* lib.rs:208-229: request().await yields r
Answer(i, r) ==
    /\ pc[i] = "await"
    /\ Given(i, "answer", r)
    /\ tries' = [tries EXCEPT ![i] = Append(@, Outcome(r))]
    /\ last' = [last EXCEPT ![i] = [kind |-> r.kind, status |-> r.status,
                                    text |-> r.text]]
    /\ LET step == retry_step(attempt[i], r) IN
       CASE step = "return_ok" ->
              /\ resp' = [resp EXCEPT ![i] = r.body]
              /\ pc' = [pc EXCEPT ![i] = "decode"]
              /\ UNCHANGED <<attempt, console, idx, response, trace>>
         [] step = "retry" ->
              /\ attempt' = [attempt EXCEPT ![i] = @ + 1]
              /\ console' = [console EXCEPT
                                ![i] = Append(@, retry_line(attempt[i] + 1))]
              /\ trace' = [trace EXCEPT
                              ![i] = @ \o <<LogEvent(retry_line(attempt[i] + 1)),
                                            DelayEvent(retry_delay)>>]
              /\ pc' = [pc EXCEPT ![i] = "delay"]
              /\ UNCHANGED <<resp, idx, response>>
         [] step = "return_err" ->
              /\ FetchFailed(i, <<IF api[i] = "links"
                                  THEN "Links request failed: "
                                  ELSE "Markdown request failed: ">>
                                \o retry_error(r))
              /\ UNCHANGED <<attempt, resp, trace>>
    /\ discovery' = [discovery EXCEPT ![i] = Heard(i, r)]
    /\ UNCHANGED <<now, bucket, req, env, api, links, markdown, file_name,
                   file_urls, called, puts, fetched, sent, naming>>

\* lib.rs:230  worker::Delay::from(retry_delay).await is over
Delay(i) ==
    /\ pc[i] = "delay"
    /\ pc' = [pc EXCEPT ![i] = "request"]
    /\ UNCHANGED <<now, bucket, pending, req, env, api, attempt, resp, links,
                   idx, markdown, file_name, file_urls, response, called,
                   console, puts, tries, last, fetched,
                   discovery, sent, trace, naming>>

(* ------------------- fetch_links, fetch_markdown ---------------------- *)

\* lib.rs:155-164 and 185-194: response.json().await, then the success flag
Decode(i) ==
    /\ pc[i] = "decode"
    /\ IF ~resp[i].parses THEN
          /\ FetchFailed(i, <<IF api[i] = "links"
                              THEN "Failed to parse links response: "
                              ELSE "Failed to parse markdown response: ",
                              "error decoding response body">>)
          /\ UNCHANGED <<links, file_urls, markdown, fetched>>
       ELSE IF ~resp[i].success THEN
          /\ FetchFailed(i, <<IF api[i] = "links"
                              THEN "Links API returned success: false"
                              ELSE "Markdown API returned success: false">>)
          /\ UNCHANGED <<links, file_urls, markdown, fetched>>
       ELSE IF api[i] = "links" THEN
          \* lib.rs:99-103: links, and an empty file_urls
          /\ links' = [links EXCEPT ![i] = resp[i].links]
          /\ file_urls' = [file_urls EXCEPT ![i] = <<>>]
          /\ idx' = [idx EXCEPT ![i] = 1]
          /\ pc' = [pc EXCEPT ![i] = "loop"]
          /\ UNCHANGED <<markdown, fetched, console, response>>
       ELSE
          \* lib.rs:107-108: Ok(markdown)
          /\ markdown' = [markdown EXCEPT ![i] = resp[i].text]
          /\ fetched' = [fetched EXCEPT ![i] = @ \cup {idx[i]}]
          /\ pc' = [pc EXCEPT ![i] = "store"]
          /\ UNCHANGED <<links, file_urls, idx, console, response>>
    \* response.json() consumes the response
    /\ resp' = [resp EXCEPT ![i] = NoBody]
    \* the record of the retry_request call that returned ends here
    /\ tries' = [tries EXCEPT ![i] = <<>>]
    /\ last' = [last EXCEPT ![i] = NoAnswer]
    /\ trace' = [trace EXCEPT ![i] = <<>>]
    /\ UNCHANGED <<now, bucket, pending, req, env, api, attempt, file_name,
                   called, puts, discovery, sent, naming>>

(* -------------------------- scrape_and_store -------------------------- *)

\* a location collected only when it is not among the collected ones
push_unique(v, x) == IF x \in Range(v) THEN v ELSE Append(v, x)

\* the location put in front of the collected ones
push_front(v, x) == <<x>> \o v

\* lib.rs:125  file_urls.push(public_url)
push(v, x) == Append(v, x)

\* lib.rs:106 and 134: the next link, or Ok(file_urls) when there is none;
\* lib.rs:107, 174, 205: fetch_markdown enters retry_request
Loop(i) ==
    /\ pc[i] = "loop"
    /\ IF idx[i] > Len(links[i]) THEN
          /\ Finish(i, scrape_ok(file_urls[i]))
          /\ UNCHANGED <<api, attempt, tries, console, trace>>
       ELSE
          /\ EnterRetry(i, "markdown")
          /\ UNCHANGED response
    /\ UNCHANGED <<now, bucket, pending, req, env, resp, links, idx, markdown,
                   file_name, file_urls, called, puts, last, fetched,
                   discovery, sent, naming>>

\* the put sent and left behind: the loop goes on to the next link at once
StoreNotAwaited(i) ==
    /\ pc[i] = "store"
    /\ file_name' = [file_name EXCEPT
                        ![i] = file_name_of(links[i][idx[i]], now)]
    /\ idx' = [idx EXCEPT ![i] = @ + 1]
    /\ pc' = [pc EXCEPT ![i] = "loop"]
    /\ UNCHANGED <<now, bucket, pending, req, env, api, attempt, resp, links,
                   markdown, file_urls, response, called, console, puts,
                   tries, last, fetched, discovery, sent, trace, naming>>

\* lib.rs:110-119: the key is made from the link and the clock, the put is sent
Store(i) ==
    /\ pc[i] = "store"
    /\ file_name' = [file_name EXCEPT
                        ![i] = file_name_of(links[i][idx[i]], now)]
    /\ pc' = [pc EXCEPT ![i] = "put"]
    /\ UNCHANGED <<now, bucket, pending, req, env, api, attempt, resp, links,
                   idx, markdown, file_urls, response, called, console, puts,
                   tries, last, fetched,
                   discovery, sent, trace, naming>>

\* a failed put logged and skipped like a failed fetch
StoreFailedSkips(i, e) ==
    /\ idx' = [idx EXCEPT ![i] = @ + 1]
    /\ pc' = [pc EXCEPT ![i] = "loop"]
    /\ UNCHANGED <<response, file_urls>>

\* a failed put answered with the locations collected before it
StoreFailedReturnsPartial(i, e) ==
    /\ Finish(i, json_response(500, FALSE, file_urls[i],
                               <<<<"Scraping failed: ", "Failed to store ">>
                                 \o file_name[i] \o <<": ", e>>>>))
    /\ UNCHANGED <<file_urls, idx>>

\* a failed put tried again
StoreFailedRetries(i, e) ==
    /\ pc' = [pc EXCEPT ![i] = "store"]
    /\ UNCHANGED <<response, file_urls, idx>>

\* lib.rs:121: the put failed with e
StoreFailed(i, e) ==
    /\ Finish(i, scrape_failed(<<"Failed to store ">> \o file_name[i]
                                  \o <<": ", e>>))
    /\ UNCHANGED <<file_urls, idx>>

\* lib.rs:117-125: bucket.put(..).execute().await yields o.  A put that fails
\* leaves the bucket as it was.
PutDone(i, o) ==
    /\ pc[i] = "put"
    /\ Given(i, "put", o)
    /\ puts' = [puts EXCEPT ![i] = Append(@,
                  [key |-> file_name[i], data |-> markdown[i],
                   at |-> idx[i], stored |-> o.kind = "stored"])]
    /\ IF o.kind = "stored" THEN
          /\ bucket' = (file_name[i] :> markdown[i]) @@ bucket
          /\ file_urls' = [file_urls EXCEPT
                              ![i] = push(@, public_url_of(file_name[i]))]
          /\ idx' = [idx EXCEPT ![i] = @ + 1]
          /\ pc' = [pc EXCEPT ![i] = "loop"]
          /\ UNCHANGED response
       ELSE
          /\ StoreFailed(i, o.text)
          /\ UNCHANGED bucket
    \* lib.rs:126: the iteration's markdown and file_name go out of scope
    /\ markdown' = [markdown EXCEPT ![i] = ""]
    /\ file_name' = [file_name EXCEPT ![i] = <<>>]
    /\ UNCHANGED <<now, req, env, api, attempt, resp, links, called, console,
                   tries, last, fetched,
                   discovery, sent, trace, naming>>

\* a millisecond passes
Tick ==
    /\ now < MaxTime
    /\ now' = now + 1
    /\ UNCHANGED <<bucket, pending, local, naming>>

(* --------------------------- specifications --------------------------- *)

Next ==
    \/ \E i \in Invs : Main(i)
    \/ \E i \in Invs : Request(i)
    \/ \E i \in Invs : \E r \in Answers(api[i]) : Answer(i, r)
    \/ \E i \in Invs : Delay(i)
    \/ \E i \in Invs : Decode(i)
    \/ \E i \in Invs : Loop(i)
    \/ \E i \in Invs : Store(i)
    \/ \E i \in Invs : \E o \in PutOutcomes : PutDone(i, o)
    \/ Tick

\* one invocation
Spec == Init /\ [][Next]_vars

\* two invocations for the same request under the same bindings; the remote
\* answers of the second repeat those of the first, the clock runs freely
InitPair ==
    /\ now = 0
    /\ bucket = <<>>
    /\ pending = <<>>
    /\ pc = [i \in Invs |-> "main"]
    /\ \E r \in Requests, e \in Envs :
          /\ req = [i \in Invs |-> r]
          /\ env = [i \in Invs |-> e]
    /\ InitLocal
    /\ name_in = [url |-> <<>>, millis |-> 0]
    /\ name_out = <<>>
    /\ key_out = <<>>

\* The two invocations share nothing but the clock and the bucket they write
\* to, so they are run in turns: the first up to its next remote answer, then
\* the second up to the same answer.
Turn(i) ==
    IF i = 1 THEN pending = <<>> \/ pc[2] = "done"
    ELSE pending # <<>> \/ pc[1] = "done"

NextPair ==
    \/ \E i \in Invs : Turn(i) /\ Main(i)
    \/ \E i \in Invs : Turn(i) /\ Request(i)
    \/ \E i \in Invs : \E r \in Answers(api[i]) : Turn(i) /\ Answer(i, r)
    \/ \E i \in Invs : Turn(i) /\ Delay(i)
    \/ \E i \in Invs : Turn(i) /\ Decode(i)
    \/ \E i \in Invs : Turn(i) /\ Loop(i)
    \/ \E i \in Invs : Turn(i) /\ Store(i)
    \/ \E i \in Invs : \E o \in PutOutcomes : Turn(i) /\ PutDone(i, o)
    \/ Tick

SpecPair == InitPair /\ [][NextPair]_vars

\* the answers that differ in what counting sees: every kind of outcome, link
\* lists of every length (of one URL), one document
OneUrl == CHOOSE u \in LinkUrls : TRUE
OneDoc == CHOOSE d \in Docs : TRUE
CountedAnswers(a) ==
    {r \in Answers(a) :
        r.body.text \in {"", OneDoc} /\ Range(r.body.links) \subseteq {OneUrl}}

\* one invocation whose upstream attempts are counted, the clock standing
\* still; every remote call is answered and the invocation is run on
NextCount ==
    \/ \E i \in Invs : Main(i)
    \/ \E i \in Invs : CountedRequest(i)
    \/ \E i \in Invs : \E r \in CountedAnswers(api[i]) : Answer(i, r)
    \/ \E i \in Invs : Delay(i)
    \/ \E i \in Invs : Decode(i)
    \/ \E i \in Invs : Loop(i)
    \/ \E i \in Invs : Store(i)
    \/ \E i \in Invs : \E o \in PutOutcomes : PutDone(i, o)

SpecCount == Init /\ [][NextCount]_vars /\ WF_vars(NextCount)

(* ----------------------- url_to_filename on its own ------------------- *)

UrlChars == {":", "/", ".", "a", "_"}
SampleUrl ==
    <<"h", "t", "t", "p", "s", ":", "/", "/", "a", ".", "c", "o", "m", "/", "x">>
UrlInputs == {SampleUrl} \cup UNION {[1..n -> UrlChars] : n \in 0..MaxUrlLen}

InitName ==
    /\ now = 0
    /\ bucket = <<>>
    /\ pending = <<>>
    /\ pc = [i \in Invs |-> "idle"]
    /\ req = [i \in Invs |-> [method |-> "POST", body_ok |-> TRUE, url |-> PageUrl]]
    /\ env = [i \in Invs |-> [token |-> TRUE, account |-> TRUE, bucket |-> TRUE,
                              client |-> TRUE]]
    /\ InitLocal
    /\ name_in \in [url : UrlInputs, millis : 0..MaxStamp]
    /\ name_out = <<>>
    /\ key_out = <<>>

\* lib.rs:112  url_to_filename(&link), the clock reading name_in.millis
CallUrlToFilename ==
    /\ name_out = <<>>
    /\ name_out' = url_to_filename(name_in.url, name_in.millis)
    /\ UNCHANGED <<now, bucket, pending, local, name_in, key_out>>

\* lib.rs:110-113  the key of the same link at the same reading
FormatFileName ==
    /\ name_out # <<>>
    /\ key_out = <<>>
    /\ key_out' = file_name_of(name_in.url, name_in.millis)
    /\ UNCHANGED <<now, bucket, pending, local, name_in, name_out>>

NextName == CallUrlToFilename \/ FormatFileName

SpecName == InitName /\ [][NextName]_vars

(* ------------------------------ claims -------------------------------- *)

Done(i) == pc[i] = "done"

\* the links capability answered 2xx with a decodable success: true body
Discovered(i) == discovery[i] = "accepted"

\* every put of the invocation so far was acknowledged
AllStored(i) == \A k \in DOMAIN puts[i] : puts[i][k].stored

\* the positions of the links whose fetch succeeded, in discovery order
Survivors(i) ==
    SelectSeq([k \in 1..Len(links[i]) |-> k], LAMBDA k : k \in fetched[i])

\* loc is the public location of an object written for link at some time
LocatesLink(loc, link) ==
    \E t \in 0..MaxTime : loc = public_url_of(file_name_of(link, t))

\* the returned locations are those of the links whose fetch succeeded, one
\* each, in discovery order
InDiscoveryOrder(i) ==
    LET f == response[i].files
        sv == Survivors(i)
    IN /\ Len(f) = Len(sv)
       /\ \A j \in 1..Len(f) : LocatesLink(f[j], links[i][sv[j]])

\* sub occurs in s as a contiguous piece
Contains(s, sub) ==
    \E k \in 0..(Len(s) - Len(sub)) : SubSeq(s, k + 1, k + Len(sub)) = sub

\* C1 as stated: whenever discovery succeeded with N links of which M were
\* fetched, the finished invocation reports exactly M locations, in discovery
\* order restricted to the fetched links.
C1_AsStated ==
    \A i \in Invs : Done(i) /\ Discovered(i) => InDiscoveryOrder(i)

\* C1 amended: the same, for the invocations all of whose puts were
\* acknowledged (a failed put ends the invocation with no locations).
C1_LocationsInDiscoveryOrder ==
    \A i \in Invs : Done(i) /\ Discovered(i) /\ AllStored(i) => InDiscoveryOrder(i)

C1_Witness ==
    /\ Done(1) /\ Discovered(1) /\ AllStored(1)
    /\ Len(links[1]) = 2
    /\ fetched[1] = {2}
    /\ Len(response[1].files) = 1

\* fetch_links was called and did not end in a decodable success: true answer
LinksFailed(i) ==
    /\ Done(i)
    /\ \E c \in called[i] : c.api = "links"
    /\ ~Discovered(i)

\* C2: when link discovery fails (retries exhausted, undecodable body, or
\* success: false), the answer is success = false with no files and an error
\* that names the links failure, and the invocation has made no fetch_markdown
\* call and no put.
C2_DiscoveryFailureIsTerminal ==
    \A i \in Invs :
        LinksFailed(i) =>
            /\ response[i].json
            /\ ~response[i].success
            /\ response[i].files = <<>>
            /\ Len(response[i].error) = 1
            /\ "Failed to fetch links: " \in Range(response[i].error[1])
            /\ \A c \in called[i] : c.api = "links"
            /\ puts[i] = <<>>

C2_Witness == LinksFailed(1) /\ discovery[1] = "rejected"

\* the invocation ended on a put that failed
PutFailed(i) ==
    /\ Done(i)
    /\ puts[i] # <<>>
    /\ ~puts[i][Len(puts[i])].stored

\* the object the bucket must hold under the key of the acknowledged put k:
\* the bytes of the latest acknowledged put to that key
LatestStored(i, k) ==
    LET same == {m \in DOMAIN puts[i] :
                    puts[i][m].stored /\ puts[i][m].key = puts[i][k].key}
    IN puts[i][CHOOSE m \in same : \A n \in same : n <= m].data

\* every acknowledged put of the invocation is in the bucket
Committed(i) ==
    \A k \in DOMAIN puts[i] :
        puts[i][k].stored =>
            /\ puts[i][k].key \in DOMAIN bucket
            /\ bucket[puts[i][k].key] = LatestStored(i, k)

\* C3: a failed put ends the invocation in failure (success = false, no files,
\* an error naming the key of the failed put), whatever was stored before, and
\* the objects whose put was acknowledged stay in the bucket.
C3_StorageFailureIsTerminal ==
    \A i \in Invs :
        /\ Committed(i)
        /\ PutFailed(i) =>
              /\ response[i].json
              /\ ~response[i].success
              /\ response[i].files = <<>>
              /\ Len(response[i].error) = 1
              /\ Contains(response[i].error[1], puts[i][Len(puts[i])].key)

C3_Witness ==
    /\ PutFailed(1)
    /\ Len(puts[1]) = 2
    /\ puts[1][1].stored
    /\ puts[1][1].key \in DOMAIN bucket

\* this step ends a fetch_markdown call in an error: the last of the 1 + 3
\* attempts fails, or the body read back is undecodable or says success: false
MarkdownFails(i) ==
    /\ api[i] = "markdown"
    /\ \/ /\ pc[i] = "await"
          /\ Len(tries[i]) = 3
          /\ Len(tries'[i]) = 4
          /\ tries'[i][4] # "success"
       \/ /\ pc[i] = "decode"
          /\ pc'[i] # "decode"
          /\ ~resp[i].parses \/ ~resp[i].success

\* C4: a failed fetch_markdown never ends the invocation: the step leaves the
\* locations, the bucket and the (absent) answer as they were and moves on to
\* the next position; from there the next link, if any, is requested; and an
\* invocation whose puts were all acknowledged ends in success with every
\* discovered link requested, however many fetches failed.
C4_FailedFetchIsSkipped ==
    /\ [][\A i \in Invs :
            MarkdownFails(i) =>
                /\ pc'[i] = "loop"
                /\ idx'[i] = idx[i] + 1
                /\ file_urls'[i] = file_urls[i]
                /\ response'[i] = NoResponse
                /\ puts'[i] = puts[i]
                /\ bucket' = bucket]_vars
    /\ [][\A i \in Invs :
            pc[i] = "loop" /\ pc'[i] # "loop" /\ idx[i] <= Len(links[i]) =>
                /\ pc'[i] = "request"
                /\ api'[i] = "markdown"
                /\ idx'[i] = idx[i]]_vars
    /\ [](\A i \in Invs :
            Done(i) /\ Discovered(i) /\ AllStored(i) =>
                /\ response[i].success
                /\ \A k \in 1..Len(links[i]) :
                      [api |-> "markdown", at |-> k, url |-> links[i][k]]
                          \in called[i])

C4_Witness ==
    /\ Len(links[1]) = 2
    /\ fetched[1] = {}
    /\ idx[1] = 2
    /\ [api |-> "markdown", at |-> 2, url |-> links[1][2]] \in called[1]

\* the attempts the current retry_request call has made
AttemptsMade(i) == Len(tries[i]) + (IF pc[i] = "await" THEN 1 ELSE 0)

\* the retry lines 1..n, in order
RetryLines(n) == [k \in 1..n |-> retry_line(k)]

\* all attempts but possibly the last failed
FailedBefore(t, n) == \A k \in 1..n : t[k] # "success"

\* C5: retry_request makes at most 1 + 3 = 4 attempts; it goes on only after a
\* failed attempt; it returns the first 2xx response, after k <= 3 failures
\* and exactly k retry lines (2 failures: 3 attempts, 2 lines); it returns its
\* terminal error only after exactly 4 failed attempts.
C5_RetryBudget ==
    \A i \in Invs :
        /\ AttemptsMade(i) <= 4
        /\ pc[i] \in {"request", "await", "delay"} =>
              FailedBefore(tries[i], Len(tries[i]))
        /\ pc[i] = "decode" =>
              /\ tries[i] # <<>>
              /\ tries[i][Len(tries[i])] = "success"
              /\ FailedBefore(tries[i], Len(tries[i]) - 1)
              /\ console[i] = RetryLines(Len(tries[i]) - 1)
        /\ pc[i] \in {"loop", "done"} /\ tries[i] # <<>> =>
              /\ Len(tries[i]) = 4
              /\ FailedBefore(tries[i], 4)
              /\ SubSeq(console[i], 1, 3) = RetryLines(3)
              /\ Len(console[i]) = IF api[i] = "links" THEN 3 ELSE 4

C5_Witness ==
    /\ pc[1] = "decode"
    /\ tries[1] = <<"error", "status", "success">>
    /\ Len(console[1]) = 2

\* token, account id and bucket are all bound
ConfigOk(i) == env[i].token /\ env[i].account /\ env[i].bucket

\* the answer is a ScrapeResponse whose status follows the mapping
StatusMapping(i) ==
    LET r == response[i] IN
    /\ r.json
    /\ r.success => r.status = 200
    /\ ~req[i].body_ok => ~r.success /\ r.status = 400
    /\ req[i].body_ok /\ ~ConfigOk(i) => ~r.success /\ r.status = 500
    /\ req[i].body_ok /\ ConfigOk(i) /\ ~r.success => r.status = 500
    /\ ~r.success => Len(r.error) = 1

\* C6 as stated: every request, whatever its method, is answered with a
\* ScrapeResponse whose status is 200 on success, 400 for a malformed body,
\* 500 for a missing binding and 500 for a failed orchestration.
C6_AsStated == \A i \in Invs : Done(i) => StatusMapping(i)

\* C6 amended: every POST request is answered so (a malformed body is judged
\* before the bindings); any other method is answered 405 with the plain
\* text "Method Not Allowed", which is no ScrapeResponse.
C6_StatusMapping ==
    \A i \in Invs :
        Done(i) =>
            IF req[i].method = "POST" THEN StatusMapping(i)
            ELSE /\ response[i].status = 405
                 /\ ~response[i].json
                 /\ response[i].text = "Method Not Allowed"

C6_Witness ==
    /\ PutFailed(1)
    /\ req[1].method = "POST"
    /\ response[1].status = 500

\* C7: the acknowledged puts of one invocation all have different keys, so
\* none overwrites an object the invocation stored before.
C7_DistinctKeys ==
    \A i \in Invs :
        \A a, b \in DOMAIN puts[i] :
            a < b /\ puts[i][a].stored /\ puts[i][b].stored =>
                puts[i][a].key # puts[i][b].key

\* one pass over the URL: "://" gives one "_", any other "/" or "." gives "_"
RECURSIVE Sanitized(_)
Sanitized(s) ==
    IF s = <<>> THEN <<>>
    ELSE IF Len(s) >= 3 /\ s[1] = ":" /\ s[2] = "/" /\ s[3] = "/"
         THEN <<"_">> \o Sanitized(SubSeq(s, 4, Len(s)))
    ELSE IF s[1] \in {"/", "."}
         THEN <<"_">> \o Sanitized(Tail(s))
    ELSE <<s[1]>> \o Sanitized(Tail(s))

DigitChars == {Digit(d) : d \in 0..9}
DigitValue(c) == CHOOSE d \in 0..9 : Digit(d) = c

\* the number a sequence of decimal digits writes
RECURSIVE Value(_)
Value(ds) ==
    IF ds = <<>> THEN 0
    ELSE 10 * Value(SubSeq(ds, 1, Len(ds) - 1)) + DigitValue(ds[Len(ds)])

\* C8: the name url_to_filename returns for (URL, t) is the URL with every
\* "://", then "/", then "." turned into "_", followed by "_" and t in
\* decimal; it holds no "/" and no "."; https://a.com/x gives
\* https_a_com_x_<t>; and the key is markdown/<name>.md.
C8_FileName ==
    /\ name_out # <<>> =>
          LET base == Sanitized(name_in.url)
              stamp == SubSeq(name_out, Len(base) + 2, Len(name_out))
          IN /\ "/" \notin Range(name_out)
             /\ "." \notin Range(name_out)
             /\ Len(name_out) >= Len(base) + 2
             /\ SubSeq(name_out, 1, Len(base)) = base
             /\ name_out[Len(base) + 1] = "_"
             /\ Range(stamp) \subseteq DigitChars
             /\ Len(stamp) = 1 \/ stamp[1] # "0"
             /\ Value(stamp) = name_in.millis
             /\ name_in.url = SampleUrl =>
                   SubSeq(name_out, 1, 14) =
                       <<"h", "t", "t", "p", "s", "_", "a", "_", "c", "o", "m",
                         "_", "x", "_">>
    /\ key_out # <<>> =>
          key_out = <<"m", "a", "r", "k", "d", "o", "w", "n", "/">>
                       \o name_out \o <<".", "m", "d">>

C8_Witness ==
    /\ name_in.url = SampleUrl
    /\ name_in.millis = 12
    /\ name_out = <<"h", "t", "t", "p", "s", "_", "a", "_", "c", "o", "m",
                    "_", "x", "_", "1", "2">>
    /\ key_out # <<>>

\* C9: two invocations for the same request that are given the same remote
\* answers end with the same success flag and the same number of locations
\* (the second is never given an answer to another kind of call than it made).
C9_SameAnswersSameCount ==
    /\ pending # <<>> /\ pc[2] = "await" => pending[1].what = "answer"
    /\ pending # <<>> /\ pc[2] = "put" => pending[1].what = "put"
    /\ Done(1) /\ Done(2) =>
          /\ response[1].success = response[2].success
          /\ Len(response[1].files) = Len(response[2].files)

C9_Witness ==
    /\ Done(1) /\ Done(2)
    /\ response[1].success
    /\ Len(response[1].files) = 2
    /\ response[1].files[1] = response[1].files[2]
    /\ response[2].files[1] # response[2].files[2]

\* retry_request returned its terminal error
RetryGaveUp(i) == pc[i] \in {"loop", "done"} /\ tries[i] # <<>>

\* the terminal error that carries the last outcome and the number of attempts
\* made
TerminalError(i) ==
    IF last[i].kind = "http"
    THEN <<"HTTP error after ">> \o to_string(Len(tries[i]))
            \o <<" attempts: ">> \o to_string(last[i].status)
    ELSE <<"Request failed after ">> \o to_string(Len(tries[i]))
            \o <<" attempts: ", last[i].text>>

\* C10: the terminal error of retry_request carries the status or transport
\* error text of the last attempt and the number of attempts made.
C10_TerminalErrorCountsAttempts ==
    \A i \in Invs :
        RetryGaveUp(i) =>
            IF api[i] = "links"
            THEN Contains(response[i].error[1], TerminalError(i))
            ELSE Contains(console[i][Len(console[i])], TerminalError(i))

\* the upstream call the invocation is making: capability, position, URL
CurrentCall(i) ==
    [api |-> api[i], at |-> idx[i],
     url |-> IF api[i] = "links" THEN req[i].url ELSE links[i][idx[i]]]

\* the 2xx response retry_request returned is undecodable or says
\* success: false
Rejected(i) == pc[i] = "decode" /\ (~resp[i].parses \/ ~resp[i].success)

\* C11: a 2xx response whose body is undecodable or says success: false fails
\* the fetch without another attempt: the step that reads it sends nothing,
\* ends the invocation (links) or moves to the next link (markdown); and an
\* attempt is only ever sent as the first of a call not made before or after
\* an attempt of the same call that ended in a transport error or a non-2xx
\* status.
C11_RejectionIsNotRetried ==
    /\ [][\A i \in Invs :
            Rejected(i) /\ pc'[i] # "decode" =>
                /\ called'[i] = called[i]
                /\ IF api[i] = "links"
                   THEN pc'[i] = "done" /\ ~response'[i].success
                   ELSE /\ pc'[i] = "loop"
                        /\ idx'[i] = idx[i] + 1
                        /\ fetched'[i] = fetched[i]]_vars
    /\ [](\A i \in Invs :
            /\ pc[i] = "request" =>
                  IF tries[i] = <<>> THEN CurrentCall(i) \notin called[i]
                  ELSE tries[i][Len(tries[i])] \in {"error", "status"}
            /\ pc[i] = "done" => \A c \in called[i] :
                  c.api = "links" \/ discovery[i] = "accepted")

C11_Witness ==
    /\ pc[1] = "loop"
    /\ idx[1] = 2
    /\ tries[1] = <<>>
    /\ Len(console[1]) = 2
    /\ "Markdown API returned success: false" \in Range(console[1][2])

\* the attempts the trace of the current call holds
AttemptsTraced(i) == Len(SelectSeq(trace[i], LAMBDA e : e.ev = "attempt"))

\* the remote operations of the invocation that have begun and not ended: an
\* attempt sent and unanswered, a delay begun and not over, a put whose key is
\* made and whose outcome is not in
InFlight(i) ==
    (IF AttemptsTraced(i) > Len(tries[i]) THEN {"attempt"} ELSE {})
    \cup (IF pc[i] # "request" /\ trace[i] # <<>>
              /\ trace[i][Len(trace[i])].ev = "delay"
           THEN {"delay"} ELSE {})
    \cup (IF file_name[i] # <<>> THEN {"put"} ELSE {})

\* link k is done with: fetched and its put completed, or not fetched (its
\* fetch_markdown call made and failed) and no put made for it
Settled(i, k) ==
    IF k \in fetched[i]
    THEN \E p \in DOMAIN puts[i] : puts[i][p].at = k
    ELSE /\ [api |-> "markdown", at |-> k, url |-> links[i][k]] \in called[i]
         /\ \A p \in DOMAIN puts[i] : puts[i][p].at # k

\* C12: an invocation has at most one remote operation (upstream attempt,
\* retry delay, put) in flight at any time, and while it is fetching link k
\* every link before k is done with (stored or skipped), no call has been
\* made for a link after k, and no fetched text waits to be stored.
C12_OneRemoteOperationAtATime ==
    \A i \in Invs :
        /\ Cardinality(InFlight(i)) <= 1
        /\ pc[i] \in {"await", "delay", "put"} => Cardinality(InFlight(i)) = 1
        /\ api[i] = "markdown" /\ pc[i] \in {"request", "await", "delay"} =>
              /\ \A k \in 1..(idx[i] - 1) : Settled(i, k)
              /\ \A c \in called[i] : c.at <= idx[i]
              /\ \A p \in DOMAIN puts[i] : puts[i][p].at < idx[i]
              /\ markdown[i] = "" /\ file_name[i] = <<>>

C12_Witness ==
    /\ pc[1] = "await"
    /\ api[1] = "markdown"
    /\ idx[1] = 2
    /\ fetched[1] = {1}
    /\ Len(puts[1]) = 1
    /\ InFlight(1) = {"attempt"}

\* the puts made for the link at position k
PutsAt(i, k) == {p \in DOMAIN puts[i] : puts[i][p].at = k}

\* C13: a key is made only for a link whose fetch_markdown has returned Ok,
\* from that link and the clock reading at that moment, and the put that
\* carries it is sent in the same step; each fetched link gets exactly one put
\* (a failed put is not tried again), made with the key of that link; a
\* skipped link gets no key and no put.
C13_OneKeyOnePutPerFetchedLink ==
    /\ [][\A i \in Invs :
            file_name'[i] # file_name[i] /\ file_name'[i] # <<>> =>
                /\ pc[i] = "store" /\ pc'[i] = "put"
                /\ idx[i] \in fetched[i]
                /\ PutsAt(i, idx[i]) = {}
                /\ file_name[i] = <<>>
                /\ file_name'[i] = file_name_of(links[i][idx[i]], now)]_vars
    /\ [](\A i \in Invs :
            /\ file_name[i] # <<>> <=> pc[i] = "put"
            /\ \A p \in DOMAIN puts[i] :
                  /\ puts[i][p].at \in fetched[i]
                  /\ PutsAt(i, puts[i][p].at) = {p}
                  /\ \E t \in 0..now :
                        puts[i][p].key = file_name_of(links[i][puts[i][p].at], t)
            /\ \A k \in fetched[i] :
                  IF k = idx[i] /\ pc[i] \in {"store", "put"}
                  THEN PutsAt(i, k) = {}
                  ELSE Cardinality(PutsAt(i, k)) = 1
            /\ \A k \in 1..Len(links[i]) :
                  k \notin fetched[i] => PutsAt(i, k) = {})

C13_Witness ==
    /\ Done(1)
    /\ Len(links[1]) = 2
    /\ fetched[1] = {2}
    /\ Len(puts[1]) = 1
    /\ ~puts[1][1].stored
    /\ puts[1][1].at = 2

\* the k-th retry line, k in 1..3, as it is printed
RetryLogLine(k) == <<"Retry attempt ", <<"1", "2", "3">>[k], " for request">>

\* what a retry_request call has done when it has made n attempts, the last
\* one just sent or just answered: attempt, (log k, delay of 2 s, attempt)*
AttemptsTrace(n) ==
    [j \in 1..(3 * n - 2) |->
        IF j % 3 = 1 THEN [ev |-> "attempt", line |-> <<>>, secs |-> 0]
        ELSE IF j % 3 = 2
             THEN [ev |-> "log", line |-> RetryLogLine((j + 1) \div 3), secs |-> 0]
        ELSE [ev |-> "delay", line |-> <<>>, secs |-> 2]]

\* the same when the n-th attempt has failed and the next is to come
RetryingTrace(n) ==
    AttemptsTrace(n)
    \o <<[ev |-> "log", line |-> RetryLogLine(n), secs |-> 0],
         [ev |-> "delay", line |-> <<>>, secs |-> 2]>>

\* C14: what a retry_request call does is attempt, then (retry line k, one
\* delay of 2 seconds, attempt) for k = 1, 2, 3 as long as attempts fail:
\* nothing is logged or awaited before the first attempt, after the attempt
\* that succeeded, or after the fourth failed attempt.
C14_LogThenDelayBetweenAttempts ==
    \A i \in Invs :
        LET n == AttemptsTraced(i) IN
        /\ pc[i] = "request" /\ tries[i] = <<>> => trace[i] = <<>>
        /\ pc[i] = "request" /\ tries[i] # <<>> =>
              n = Len(tries[i]) /\ n <= 3 /\ trace[i] = RetryingTrace(n)
        /\ pc[i] = "delay" =>
              n = Len(tries[i]) /\ n <= 3 /\ trace[i] = RetryingTrace(n)
        /\ pc[i] = "await" =>
              n = Len(tries[i]) + 1 /\ trace[i] = AttemptsTrace(n)
        /\ pc[i] = "decode" =>
              n = Len(tries[i]) /\ trace[i] = AttemptsTrace(n)
        /\ RetryGaveUp(i) => n = 4 /\ trace[i] = AttemptsTrace(4)

C14_Witness ==
    /\ pc[1] = "decode"
    /\ Len(trace[1]) = 7
    /\ trace[1][5].ev = "log"
    /\ trace[1][6].ev = "delay"

\* an attempt's outcome as retry_request is claimed to see it: 2xx or not
Class(o) == IF o = "success" THEN "ok" ELSE "failed"

\* the outcomes of a call's attempts with the two kinds of failure made one
Classes(t) == [k \in DOMAIN t |-> Class(t[k])]

\* k failed attempts
AllFailed(k) == [j \in 1..k |-> "failed"]

\* C15: retry_request returns on the first 2xx response, and what it does
\* after an attempt depends on `attempt` and on whether the response was 2xx
\* only: at every attempt a non-2xx status and a transport error lead to the
\* same step, `attempt` counts the failures of either kind, a call that
\* returned Ok made k <= 3 failed attempts of any kinds and then the 2xx one,
\* and a call that returned its error made 4 failed attempts of any kinds.
C15_FailuresTreatedAlike ==
    \A i \in Invs :
        /\ pc[i] = "await" =>
              /\ \A r1, r2 \in Failures :
                    retry_step(attempt[i], r1) = retry_step(attempt[i], r2)
              /\ \A r \in Answers(api[i]) \ Failures :
                    retry_step(attempt[i], r) = "return_ok"
        /\ pc[i] \in {"request", "await", "delay"} =>
              /\ Classes(tries[i]) = AllFailed(Len(tries[i]))
              /\ attempt[i] = Len(tries[i])
        /\ pc[i] = "decode" =>
              /\ Len(tries[i]) \in 1..4
              /\ Classes(tries[i]) = Append(AllFailed(Len(tries[i]) - 1), "ok")
        /\ RetryGaveUp(i) => Classes(tries[i]) = AllFailed(4)

C15_Witness ==
    /\ RetryGaveUp(1)
    /\ tries[1] = <<"error", "status", "status", "error">>
    /\ \E r1, r2 \in Failures : r1.kind = "http" /\ r2.kind = "err"

\* C16: wherever an invocation is cut off, the objects whose put was
\* acknowledged stay as they were stored: no step removes an object from the
\* bucket or changes the bytes held under a key.
C16_CommittedObjectsKeepContent ==
    [][\A k \in DOMAIN bucket :
          /\ k \in DOMAIN bucket'
          /\ bucket'[k] = bucket[k]]_vars

\* C17: an invocation whose remote calls are all answered ends with a
\* response; by then and at any time before it has sent at most 4 upstream
\* attempts for the links and 4 for each of the N links discovered,
\* 4 * (N + 1) in all (4 as long as no link is discovered), and has made at
\* most N puts.
C17_TerminatesWithinBudget ==
    /\ [](\A i \in Invs :
            /\ sent[i] <= 4 * (Len(links[i]) + 1)
            /\ Len(puts[i]) <= Len(links[i]))
    /\ <>Done(1)

C17_Witness ==
    /\ Done(1)
    /\ Len(links[1]) = 2
    /\ sent[1] = 12
    /\ Len(puts[1]) = 2
    /\ response[1].success

\* a put of the invocation has failed
SomePutFailed(i) == \E p \in DOMAIN puts[i] : ~puts[i][p].stored

\* C18: a failed put is the last remote call of its invocation: the invocation
\* is over with it, nothing is in flight, no call was made for a later link,
\* and no later step sends an attempt, begins a delay or makes a put.
C18_NothingAfterFailedPut ==
    /\ [](\A i \in Invs :
            \A p \in DOMAIN puts[i] :
                ~puts[i][p].stored =>
                    /\ p = Len(puts[i])
                    /\ Done(i)
                    /\ InFlight(i) = {}
                    /\ \A c \in called[i] : c.at <= puts[i][p].at)
    /\ [][\A i \in Invs :
            SomePutFailed(i) =>
                /\ called'[i] = called[i]
                /\ puts'[i] = puts[i]
                /\ trace'[i] = trace[i]
                /\ file_name'[i] = file_name[i]
                /\ pc'[i] = "done"]_vars

C18_Witness ==
    /\ Len(links[1]) = 2
    /\ Len(puts[1]) = 1
    /\ ~puts[1][1].stored
    /\ puts[1][1].at = 1
    /\ now = 1
    /\ \A c \in called[1] : c.at <= 1

\* main has returned a Response
Responded(i) == response[i] # NoResponse

\* C19: a ScrapeResponse says success exactly when it carries no error, and
\* carries no files unless it says success, whatever locations were collected
\* before a put failed; an invocation returns its Response when it ends, not
\* before, and never a second one.
C19_ScrapeResponseShape ==
    /\ [](\A i \in Invs :
            /\ response[i].json =>
                  /\ response[i].success <=> response[i].error = <<>>
                  /\ ~response[i].success => response[i].files = <<>>
                  /\ Len(response[i].error) <= 1
            /\ Responded(i) <=> Done(i))
    /\ [][\A i \in Invs :
            Responded(i) => response'[i] = response[i]]_vars

C19_Witness ==
    /\ PutFailed(1)
    /\ file_urls[1] # <<>>
    /\ response[1].json
    /\ response[1].files = <<>>
    /\ response[1].error # <<>>

\* the puts the bucket acknowledged, in order
Acknowledged(i) == SelectSeq(puts[i], LAMBDA p : p.stored)

\* the location of the object stored under key:
\* https://<your-r2-bucket-public-domain>/ followed by the key
LocationOfKey(key) ==
    <<"h", "t", "t", "p", "s", ":", "/", "/", "<", "y", "o", "u", "r", "-",
      "r", "2", "-", "b", "u", "c", "k", "e", "t", "-", "p", "u", "b", "l",
      "i", "c", "-", "d", "o", "m", "a", "i", "n", ">", "/">> \o key

\* locs are the locations of the acknowledged puts, one each, in order
MatchesAcknowledged(i, locs) ==
    LET acked == Acknowledged(i) IN
    /\ Len(locs) = Len(acked)
    /\ \A j \in 1..Len(locs) : locs[j] = LocationOfKey(acked[j].key)

\* C20: the locations a successful invocation returns are those of the puts
\* the bucket acknowledged during it, as many and in the same order, the j-th
\* made of the key of the j-th acknowledged put; the locations collected on
\* the way are so at every moment.
C20_LocationsMatchAcknowledgedPuts ==
    \A i \in Invs :
        /\ MatchesAcknowledged(i, file_urls[i])
        /\ Done(i) /\ response[i].success =>
              /\ MatchesAcknowledged(i, response[i].files)
              /\ AllStored(i)

C20_Witness ==
    /\ Done(1)
    /\ response[1].success
    /\ Len(response[1].files) = 2
    /\ response[1].files[1] # response[1].files[2]
    /\ Len(puts[1]) = 2

====
